---- MODULE Spec2Model ----
(***************************************************************************)
(* A model of src/parse_tools.py: the chunked csv writer (ChunkWriter),   *)
(* its inert counterpart (DummyWriter) and the line filter / pull-parser  *)
(* pump (parse_wrapper, clear).                                           *)
(*                                                                         *)
(* Three specifications share the module's variables:                     *)
(*   Spec       calls on one ChunkWriter                                   *)
(*   SpecDummy  calls on one DummyWriter                                   *)
(*   SpecParse  one run of the parse_wrapper generator over one input     *)
(* Each leaves the other components' variables at their initial value.    *)
(***************************************************************************)
EXTENDS Integers, Sequences, FiniteSets, TLC

VARIABLES
    cw,        \* the ChunkWriter object: its fields (schema, chunk_size, output, items, i, j, file)
    inserted,  \* history: every row handed to insert / insertmany so far, in call order
    commits,   \* history: how many times the caller has called commit itself
    op,        \* the last call made on the writer
    ret,       \* what that call returned ("True", "False", "None"), or "raised"
    fault,     \* the exception that call raised, or "none"
    dw,        \* the DummyWriter object: its fields (chunk_size, output, last, i)
    dcalls,    \* history: how many times each DummyWriter method was called
    pw         \* the parse_wrapper generator: input, position, parser, tree, event queue

vars == <<cw, inserted, commits, op, ret, fault, dw, dcalls, pw>>

-----------------------------------------------------------------------------
(* Bounds of the model. *)

\* rows handed to one writer over its lifetime
MaxRows == 3
\* largest chunk_size tried
MaxChunk == 2
\* largest list handed to one insertmany call
MaxMany == 3
\* cap on the number of commit calls (the counter i grows on every commit call)
MaxCommits == 4
\* calls made on one DummyWriter
MaxDummyCalls == 4
\* lines of the input file read by parse_wrapper
MaxLines == 4

-----------------------------------------------------------------------------
(* Values. *)

\* cell values a caller inserts: an integer literal, a non-number, a non-integral number
Cells == {"12", "abc", "1.5"}

\* schemas: the dict's items() in order, each item <<column name, declared type>>
Schemas ==
    { << <<"a", "str">> >>,
      << <<"a", "int">> >>,
      << <<"a", "str">>, <<"b", "int">> >>,
      << <<"a", "float">> >> }

\* the rows a caller inserts, all of the schema's arity: every cell for a
\* one-column schema, and for a wider one rows that differ in every column
RowsOf(schema) ==
    IF Len(schema) = 1
    THEN {<<c>> : c \in Cells}
    ELSE { [k \in 1..Len(schema) |-> IF k = 1 THEN "abc" ELSE "12"],
           [k \in 1..Len(schema) |-> IF k = 1 THEN "12" ELSE "abc"],
           [k \in 1..Len(schema) |-> "1.5"] }

\* sequences over S of length lo..hi
SeqsUpTo(S, lo, hi) == UNION { [1..n -> S] : n \in lo..hi }

Min(a, b) == IF a <= b THEN a ELSE b

-----------------------------------------------------------------------------
(* astype and the frame written by commit. *)

\* A value held in a Series: a string (t = "str"), a float that is a whole
\* number or an Int64 (t = "int"), a non-integral float (t = "frac"), NaN
\* (t = "nan") or <NA> (t = "na").
StrVal(s) == [t |-> "str", s |-> s, n |-> 0]
NumVal(n) == [t |-> "int", s |-> "", n |-> n]
Special(t) == [t |-> t, s |-> "", n |-> 0]

\* pd.to_numeric(..., errors='coerce') on one cell: the float it parses to
to_numeric(cell) ==
    CASE cell = "12"  -> NumVal(12)
      [] cell = "7"   -> NumVal(7)
      [] cell = "1.5" -> Special("frac")
      [] OTHER        -> Special("nan")

\* .astype('Int64') on a float column: NaN becomes <NA>, a whole float its
\* integer, and a non-integral float makes the cast raise TypeError.
astype_Int64(col) ==
    IF \E k \in DOMAIN col : col[k].t = "frac"
    THEN [fault |-> "TypeError", col |-> <<>>]
    ELSE [fault |-> "none",
          col   |-> [k \in DOMAIN col |-> IF col[k].t = "nan" THEN Special("na") ELSE col[k]]]

\* astype(data, dtype): 'str' keeps the cells, 'int' coerces, anything else raises
astype(data, dtype) ==
    IF dtype = "str"
    THEN [fault |-> "none", col |-> [k \in DOMAIN data |-> StrVal(data[k])]]
    ELSE IF dtype = "int"
    THEN astype_Int64([k \in DOMAIN data |-> to_numeric(data[k])])
    ELSE [fault |-> "Exception", col |-> <<>>]

\* zip(*items): one tuple per column, as many columns as the shortest row has
MinLen(items) ==
    IF Len(items) = 0 THEN 0
    ELSE CHOOSE n \in {Len(items[r]) : r \in 1..Len(items)} :
            \A r \in 1..Len(items) : n <= Len(items[r])

zip_items(items) ==
    [c \in 1..MinLen(items) |-> [r \in 1..Len(items) |-> items[r][c]]]

\* pd.DataFrame({k: astype(d, v) for (k, v), d in zip(schema.items(), data)}):
\* the columns are built in schema order and the first astype that raises
\* ends the construction.
DataFrame(schema, data) ==
    LET n     == Min(Len(schema), Len(data))
        cols  == [c \in 1..n |-> astype(data[c], schema[c][2])]
        bad   == {c \in 1..n : cols[c].fault # "none"}
        first == CHOOSE c \in bad : \A d \in bad : c <= d
    IN  IF bad # {}
        THEN [fault |-> cols[first].fault, cols |-> <<>>]
        ELSE [fault |-> "none", cols |-> [c \in 1..n |-> cols[c].col]]

\* how to_csv writes one value: <NA> as the empty field, an integer as its
\* decimal literal, a string as it is
csv_field(v) ==
    CASE v.t = "na"               -> ""
      [] v.t = "int" /\ v.n = 12  -> "12"
      [] v.t = "int" /\ v.n = 7   -> "7"
      [] OTHER                    -> v.s

\* frame.to_csv(file, index=False, header=False): one line per row, fields in column order
to_csv(cols) ==
    LET nrows == IF Len(cols) = 0 THEN 0 ELSE Len(cols[1])
    IN  [r \in 1..nrows |-> [c \in 1..Len(cols) |-> csv_field(cols[c][r])]]

\* the header line: the schema's column names
HeaderLine(schema) == [c \in 1..Len(schema) |-> schema[c][1]]

-----------------------------------------------------------------------------
(* ChunkWriter. Each method is an operator from the object to the object  *)
(* after the call, with what the call returned or raised.                 *)

Returns(w, value) == [w |-> w, ret |-> value, fault |-> "none"]
Raises(w, exc)    == [w |-> w, ret |-> "raised", fault |-> exc]

\* ChunkWriter.__init__
ChunkWriter(schema, chunk_size, output) ==
    [ schema     |-> schema,
      chunk_size |-> chunk_size,
      output     |-> output,
      items      |-> <<>>,
      i          |-> 0,
      j          |-> 0,
      file       |-> [closed |-> FALSE, lines |-> <<HeaderLine(schema)>>] ]

\* commit with its last statement, items.clear(), left out
commit_without_clear(w) ==
    LET w1    == [w EXCEPT !.i = @ + 1, !.j = @ + Len(w.items)]
        frame == DataFrame(w.schema, zip_items(w.items))
    IN  IF Len(w.items) = 0 THEN Returns(w1, "None")
        ELSE IF w.output THEN Raises(w1, "AttributeError")
        ELSE IF frame.fault # "none" THEN Raises(w1, frame.fault)
        ELSE IF w.file.closed THEN Raises(w1, "ValueError")
        ELSE Returns([w1 EXCEPT !.file.lines = @ \o to_csv(frame.cols)], "None")

\* commit writing its frame over the sink's content instead of after it
commit_overwrites(w) ==
    LET w1    == [w EXCEPT !.i = @ + 1, !.j = @ + Len(w.items)]
        frame == DataFrame(w.schema, zip_items(w.items))
    IN  IF Len(w.items) = 0 THEN Returns(w1, "None")
        ELSE IF w.output THEN Raises(w1, "AttributeError")
        ELSE IF frame.fault # "none" THEN Raises(w1, frame.fault)
        ELSE IF w.file.closed THEN Raises(w1, "ValueError")
        ELSE Returns([w1 EXCEPT !.file.lines = to_csv(frame.cols),
                                !.items = <<>>], "None")

\* commit with items.clear() moved to its start, before the frame is built
commit_clear_first(w) ==
    LET w1    == [w EXCEPT !.i = @ + 1, !.j = @ + Len(w.items), !.items = <<>>]
        frame == DataFrame(w.schema, zip_items(w.items))
    IN  IF Len(w.items) = 0 THEN Returns(w1, "None")
        ELSE IF w.output THEN Raises(w1, "AttributeError")
        ELSE IF frame.fault # "none" THEN Raises(w1, frame.fault)
        ELSE IF w.file.closed THEN Raises(w1, "ValueError")
        ELSE Returns([w1 EXCEPT !.file.lines = @ \o to_csv(frame.cols)], "None")

\* ChunkWriter.commit
commit(w) ==
    LET w1    == [w EXCEPT !.i = @ + 1, !.j = @ + Len(w.items)]
        frame == DataFrame(w.schema, zip_items(w.items))
    IN  IF Len(w.items) = 0 THEN Returns(w1, "None")
        ELSE IF w.output THEN Raises(w1, "AttributeError")      \* self.table does not exist
        ELSE IF frame.fault # "none" THEN Raises(w1, frame.fault)
        ELSE IF w.file.closed THEN Raises(w1, "ValueError")     \* write to a closed file
        ELSE Returns([w1 EXCEPT !.file.lines = @ \o to_csv(frame.cols),
                                !.items = <<>>], "None")

\* insert with the threshold test written > instead of >=
insert_past_threshold(w, row) ==
    LET w1 == [w EXCEPT !.items = Append(@, row)]
        c  == commit(w1)
    IN  IF Len(w1.items) > w1.chunk_size
        THEN IF c.fault # "none" THEN c ELSE Returns(c.w, "True")
        ELSE Returns(w1, "False")

\* ChunkWriter.insert
insert(w, row) ==
    LET w1 == [w EXCEPT !.items = Append(@, row)]
        c  == commit(w1)
    IN  IF Len(w1.items) >= w1.chunk_size
        THEN IF c.fault # "none" THEN c ELSE Returns(c.w, "True")
        ELSE Returns(w1, "False")

\* insertmany with the threshold test written > instead of >=
insertmany_past_threshold(w, rows) ==
    LET w1 == [w EXCEPT !.items = @ \o rows]
        c  == commit(w1)
    IN  IF Len(w1.items) > w1.chunk_size
        THEN IF c.fault # "none" THEN c ELSE Returns(c.w, "True")
        ELSE Returns(w1, "False")

\* ChunkWriter.insertmany
insertmany(w, rows) ==
    LET w1 == [w EXCEPT !.items = @ \o rows]
        c  == commit(w1)
    IN  IF Len(w1.items) >= w1.chunk_size
        THEN IF c.fault # "none" THEN c ELSE Returns(c.w, "True")
        ELSE Returns(w1, "False")

\* ChunkWriter.delete: close the file, then os.remove(path)
delete(w) ==
    IF w.file.closed
    THEN Raises(w, "FileNotFoundError")
    ELSE Returns([w EXCEPT !.file = [closed |-> TRUE, lines |-> <<>>]], "None")

-----------------------------------------------------------------------------
(* Specification Spec: calls on one ChunkWriter. *)

DummyIdle == [chunk_size |-> 1, output |-> FALSE, last |-> <<"None">>, i |-> 0]
NoCalls   == [insert |-> 0, insertmany |-> 0, commit |-> 0, delete |-> 0]
ParseIdle == [pc |-> "idle"]

Init ==
    /\ \E schema \in Schemas, chunk_size \in 1..MaxChunk, output \in BOOLEAN :
          cw = ChunkWriter(schema, chunk_size, output)
    /\ inserted = <<>>
    /\ commits = 0
    /\ op = "init"
    /\ ret = "None"
    /\ fault = "none"
    /\ dw = DummyIdle
    /\ dcalls = NoCalls
    /\ pw = ParseIdle

\* the caller sees the outcome r of call name
Outcome(name, r) ==
    /\ cw' = r.w
    /\ op' = name
    /\ ret' = r.ret
    /\ fault' = r.fault
    /\ UNCHANGED <<dw, dcalls, pw>>

\* a call that reaches commit is allowed while the commit counter is below its cap
MayCommit(w) == Len(w.items) >= w.chunk_size => w.i < MaxCommits

Insert ==
    /\ Len(inserted) < MaxRows
    /\ \E row \in RowsOf(cw.schema) :
          /\ MayCommit([cw EXCEPT !.items = Append(@, row)])
          /\ inserted' = Append(inserted, row)
          /\ commits' = commits
          /\ Outcome("insert", insert(cw, row))

InsertMany ==
    \E rows \in SeqsUpTo(RowsOf(cw.schema), 0, Min(MaxMany, MaxRows - Len(inserted))) :
        /\ MayCommit([cw EXCEPT !.items = @ \o rows])
        /\ inserted' = inserted \o rows
        /\ commits' = commits
        /\ Outcome("insertmany", insertmany(cw, rows))

Commit ==
    /\ cw.i < MaxCommits
    /\ inserted' = inserted
    /\ commits' = commits + 1
    /\ Outcome("commit", commit(cw))

Delete ==
    /\ inserted' = inserted
    /\ commits' = commits
    /\ Outcome("delete", delete(cw))

Next == Insert \/ InsertMany \/ Commit \/ Delete

Spec == Init /\ [][Next]_vars

-----------------------------------------------------------------------------
(* DummyWriter. *)

\* DummyWriter.__init__
DummyWriter(chunk_size, output) ==
    [chunk_size |-> chunk_size, output |-> output, last |-> <<"None">>, i |-> 0]

\* DummyWriter.commit (print(self.last) when output is set, then the count restarts)
dummy_commit(d) == Returns([d EXCEPT !.i = 0], "None")

\* insert with the commit at the threshold left out: the count only grows
dummy_insert_never_commits(d, row) ==
    LET d1 == [d EXCEPT !.last = row, !.i = @ + 1]
    IN  Returns(d1, IF d1.i >= d1.chunk_size THEN "True" ELSE "False")

\* DummyWriter.insert
dummy_insert(d, row) ==
    LET d1 == [d EXCEPT !.last = row, !.i = @ + 1]
    IN  IF d1.i >= d1.chunk_size
        THEN Returns(dummy_commit(d1).w, "True")
        ELSE Returns(d1, "False")

\* DummyWriter.insertmany
dummy_insertmany(d, rows) ==
    LET d1 == [d EXCEPT !.last = IF Len(rows) > 0 THEN rows[Len(rows)] ELSE @,
                        !.i = @ + Len(rows)]
    IN  IF d1.i >= d1.chunk_size
        THEN Returns(dummy_commit(d1).w, "True")
        ELSE Returns(d1, "False")

\* DummyWriter.delete
dummy_delete(d) == Returns(d, "None")

-----------------------------------------------------------------------------
(* Specification SpecDummy: calls on one DummyWriter. *)

\* the rows handed to the DummyWriter
DummyRows == {<<c>> : c \in Cells}

InitDummy ==
    /\ \E chunk_size \in 1..MaxChunk, output \in BOOLEAN :
          dw = DummyWriter(chunk_size, output)
    /\ dcalls = NoCalls
    /\ op = "init"
    /\ ret = "None"
    /\ fault = "none"
    /\ cw = ChunkWriter(<< <<"a", "str">> >>, 1, FALSE)
    /\ inserted = <<>>
    /\ commits = 0
    /\ pw = ParseIdle

DummyCallsMade == dcalls.insert + dcalls.insertmany + dcalls.commit + dcalls.delete

\* the caller sees the outcome r of call name
DummyOutcome(name, r) ==
    /\ DummyCallsMade < MaxDummyCalls
    /\ dw' = r.w
    /\ dcalls' = [dcalls EXCEPT ![name] = @ + 1]
    /\ op' = name
    /\ ret' = r.ret
    /\ fault' = r.fault
    /\ UNCHANGED <<cw, inserted, commits, pw>>

DummyInsert == \E row \in DummyRows : DummyOutcome("insert", dummy_insert(dw, row))

DummyInsertMany ==
    \E rows \in SeqsUpTo(DummyRows, 0, MaxMany) :
        DummyOutcome("insertmany", dummy_insertmany(dw, rows))

DummyCommit == DummyOutcome("commit", dummy_commit(dw))

DummyDelete == DummyOutcome("delete", dummy_delete(dw))

NextDummy == DummyInsert \/ DummyInsertMany \/ DummyCommit \/ DummyDelete

SpecDummy == InitDummy /\ [][NextDummy]_vars

-----------------------------------------------------------------------------
(* Specification SpecPair: a ChunkWriter and a DummyWriter built with the  *)
(* same chunk_size and given the same calls, one call after the other,    *)
(* until a call raises.                                                   *)

InitPair ==
    /\ \E schema \in Schemas, chunk_size \in 1..MaxChunk, output \in BOOLEAN :
          /\ cw = ChunkWriter(schema, chunk_size, output)
          /\ dw = DummyWriter(chunk_size, output)
    /\ inserted = <<>>
    /\ commits = 0
    /\ op = "init"
    /\ ret = "None"
    /\ fault = "none"
    /\ dcalls = NoCalls
    /\ pw = ParseIdle

\* the caller made call name on both writers: r is the ChunkWriter's outcome,
\* d the DummyWriter's
PairOutcome(name, r, d) ==
    /\ cw' = r.w
    /\ dw' = d.w
    /\ op' = name
    /\ ret' = r.ret
    /\ fault' = r.fault
    /\ UNCHANGED <<dcalls, pw>>

PairInsert ==
    /\ fault = "none"
    /\ Len(inserted) < MaxRows
    /\ \E row \in RowsOf(cw.schema) :
          /\ MayCommit([cw EXCEPT !.items = Append(@, row)])
          /\ inserted' = Append(inserted, row)
          /\ commits' = commits
          /\ PairOutcome("insert", insert(cw, row), dummy_insert(dw, row))

PairInsertMany ==
    /\ fault = "none"
    /\ \E rows \in SeqsUpTo(RowsOf(cw.schema), 0, Min(MaxMany, MaxRows - Len(inserted))) :
          /\ MayCommit([cw EXCEPT !.items = @ \o rows])
          /\ inserted' = inserted \o rows
          /\ commits' = commits
          /\ PairOutcome("insertmany", insertmany(cw, rows), dummy_insertmany(dw, rows))

PairCommit ==
    /\ fault = "none"
    /\ cw.i < MaxCommits
    /\ inserted' = inserted
    /\ commits' = commits + 1
    /\ PairOutcome("commit", commit(cw), dummy_commit(dw))

NextPair == PairInsert \/ PairInsertMany \/ PairCommit

SpecPair == InitPair /\ [][NextPair]_vars

-----------------------------------------------------------------------------
(* parse_wrapper: the input, the pull parser and its tree. *)

\* A line is the sequence of its lexical pieces; the first piece is what
\* str.startswith sees. The designated element (main_tag) is rec.
main_tag == "rec"

InputLines ==
    { <<"<?xml">>, <<"<!DOCTYPE">>, <<"<!ENTITY">>, <<"]>">>,
      <<"<rec>">>, <<"</rec>">>, <<"<rec>", "</rec>">>, <<"<x/>">>,
      <<"text", "]>">> }

\* the test written as `prefix in line`
contains(line, prefix) == \E k \in 1..Len(line) : line[k] = prefix

\* line.startswith(prefix)
startswith(line, prefix) == Len(line) > 0 /\ line[1] = prefix

\* the branch parse_wrapper's loop takes for a line
LineKind(line) ==
    IF startswith(line, "<?xml") THEN "declaration"
    ELSE IF startswith(line, "<!DOCTYPE") \/ startswith(line, "<!ENTITY") \/ startswith(line, "]>")
    THEN "dropped"
    ELSE "content"

\* XMLPullParser(tag=main_tag, events=['end'], recover=True) before any feed.
\* Nodes are numbered in creation order; tag, parent (0: none) and children
\* are indexed by node. open is the stack of elements not yet closed, events
\* the queue read_events() pops, ends the history of every event queued.
NewParser ==
    [ tag      |-> <<>>,
      parent   |-> <<>>,
      children |-> <<>>,
      open     |-> <<>>,
      events   |-> <<>>,
      ends     |-> <<>>,
      cleared  |-> {} ]

\* a start tag: a new node, the last child of the innermost open element
start_element(t, tag) ==
    LET id  == Len(t.tag) + 1
        par == IF Len(t.open) = 0 THEN 0 ELSE t.open[Len(t.open)]
    IN  [t EXCEPT !.tag      = Append(@, tag),
                  !.parent   = Append(@, par),
                  !.children = IF par = 0
                               THEN Append(@, <<>>)
                               ELSE Append([@ EXCEPT ![par] = Append(@, id)], <<>>),
                  !.open     = Append(@, id)]

\* an end tag: the innermost open element closes; an 'end' event is queued
\* when its tag is the one the parser was built for
end_element(t) ==
    IF Len(t.open) = 0 THEN t
    ELSE LET e == t.open[Len(t.open)]
         IN  [t EXCEPT !.open   = SubSeq(@, 1, Len(@) - 1),
                       !.events = IF t.tag[e] = main_tag THEN Append(@, e) ELSE @,
                       !.ends   = IF t.tag[e] = main_tag THEN Append(@, e) ELSE @]

\* the parser reading one piece of a fed line
parse_piece(t, piece) ==
    CASE piece = "<root>"                -> start_element(t, "root")
      [] piece = "<rec>"                 -> start_element(t, "rec")
      [] piece = "<x/>"                  -> end_element(start_element(t, "x"))
      [] piece \in {"</rec>", "</root>"} -> end_element(t)
      [] OTHER                           -> t

\* pp.feed(line)
RECURSIVE feed(_, _)
feed(t, line) ==
    IF Len(line) = 0 THEN t ELSE feed(parse_piece(t, Head(line)), Tail(line))

\* elem.getprevious(): the sibling before e, 0 when there is none
getprevious(t, e) ==
    LET par == t.parent[e]
    IN  IF par = 0 THEN 0
        ELSE LET sibs == t.children[par]
                 at   == CHOOSE k \in 1..Len(sibs) : sibs[k] = e
             IN  IF at = 1 THEN 0 ELSE sibs[at - 1]

\* del elem.getparent()[0]: the parent's first child leaves the tree
del_first_child(t, par) ==
    LET gone == t.children[par][1]
    IN  [t EXCEPT !.children[par] = Tail(@), !.parent[gone] = 0]

\* the loop of clear: while elem.getprevious() is not None: del elem.getparent()[0]
RECURSIVE drop_previous(_, _)
drop_previous(t, e) ==
    IF getprevious(t, e) # 0
    THEN drop_previous(del_first_child(t, t.parent[e]), e)
    ELSE t

\* elem.clear(): the element loses its children (and text)
element_clear(t, e) ==
    LET kids == {t.children[e][k] : k \in 1..Len(t.children[e])}
    IN  [t EXCEPT !.children[e] = <<>>,
                  !.parent = [n \in DOMAIN @ |-> IF n \in kids THEN 0 ELSE @[n]],
                  !.cleared = @ \cup {e}]

\* clear without its while loop: only elem.clear()
clear_without_loop(t, e) == element_clear(t, e)

\* clear(elem)
clear(t, e) == drop_previous(element_clear(t, e), e)

-----------------------------------------------------------------------------
(* Specification SpecParse: one run of the parse_wrapper generator. *)

\* the pieces of <rec> ... </rec> in the lines that reach the parser never
\* close more than was opened and all are closed at the end of the input
RECURSIVE Depths(_, _)
Depths(pieces, d) ==
    IF Len(pieces) = 0 THEN <<d>>
    ELSE <<d>> \o Depths(Tail(pieces),
                         CASE Head(pieces) = "<rec>"  -> d + 1
                           [] Head(pieces) = "</rec>" -> d - 1
                           [] OTHER                   -> d)

RECURSIVE Flatten(_)
Flatten(ls) == IF Len(ls) = 0 THEN <<>> ELSE Head(ls) \o Flatten(Tail(ls))

WellNested(ls) ==
    LET content == SelectSeq(ls, LAMBDA l : LineKind(l) = "content")
        ds      == Depths(Flatten(content), 0)
    IN  /\ \A k \in 1..Len(ds) : ds[k] >= 0
        /\ ds[Len(ds)] = 0

\* the generator before its first next(): nothing has run yet
parse_wrapper(ls) ==
    [ pc      |-> "start",
      lines   |-> ls,
      pos     |-> 0,
      fed     |-> <<>>,
      pp      |-> NewParser,
      after   |-> "loop",
      pat     |-> 0,
      yielded |-> <<>>,
      stale   |-> FALSE ]

InitParse ==
    /\ \E ls \in SeqsUpTo(InputLines, 0, MaxLines) :
          /\ WellNested(ls)
          /\ pw = parse_wrapper(ls)
    /\ cw = ChunkWriter(<< <<"a", "str">> >>, 1, FALSE)
    /\ inserted = <<>>
    /\ commits = 0
    /\ op = "init"
    /\ ret = "None"
    /\ fault = "none"
    /\ dw = DummyIdle
    /\ dcalls = NoCalls

\* pp.feed(line) with the record of what was fed
pp_feed(g, line) == [g EXCEPT !.fed = Append(@, line), !.pp = feed(@, line)]

\* the loop body with the declaration branch doing nothing: no parse_all
read_line_without_drain(g, line) ==
    LET g1 == [g EXCEPT !.pos = @ + 1]
    IN  IF startswith(line, "<?xml")
        THEN g1
        ELSE IF startswith(line, "<!DOCTYPE") \/ startswith(line, "<!ENTITY") \/ startswith(line, "]>")
        THEN g1
        ELSE pp_feed(g1, line)

\* the loop body for one line
read_line(g, line) ==
    LET g1 == [g EXCEPT !.pos = @ + 1]
    IN  IF startswith(line, "<?xml")
        THEN [g1 EXCEPT !.pc = "parse_all", !.after = "loop"]
        ELSE IF startswith(line, "<!DOCTYPE") \/ startswith(line, "<!ENTITY") \/ startswith(line, "]>")
        THEN g1
        ELSE pp_feed(g1, line)

\* parse_all with the two statements of its loop body swapped: clear(pat)
\* runs before the element is transformed and yielded
parse_all_next_clear_first(g) ==
    IF Len(g.pp.events) = 0
    THEN [g EXCEPT !.pc = g.after]
    ELSE LET e  == Head(g.pp.events)
             t1 == clear(g.pp, e)
         IN  [g EXCEPT !.pp        = [t1 EXCEPT !.events = Tail(@)],
                       !.pat       = e,
                       !.yielded   = Append(@, e),
                       !.stale     = @ \/ e \in t1.cleared,
                       !.pc        = "yielded"]

\* parse_all up to its yield: the next event's element is transformed and
\* yielded; with no event left parse_all returns
parse_all_next(g) ==
    IF Len(g.pp.events) = 0
    THEN [g EXCEPT !.pc = g.after]
    ELSE LET e == Head(g.pp.events)
         IN  [g EXCEPT !.pp.events = Tail(@),
                       !.pat       = e,
                       !.yielded   = Append(@, e),
                       !.stale     = @ \/ e \in g.pp.cleared,
                       !.pc        = "yielded"]

\* parse_all after its yield: clear(pat), then back to the events
parse_all_resume(g) == [g EXCEPT !.pp = clear(@, g.pat), !.pc = "parse_all"]

PwUnchanged == UNCHANGED <<cw, inserted, commits, op, ret, fault, dw, dcalls>>

\* first next(): the parser is built, the file opened, '<root>' fed
Open ==
    /\ pw.pc = "start"
    /\ pw' = [pp_feed(pw, <<"<root>">>) EXCEPT !.pc = "loop"]
    /\ PwUnchanged

\* for line in f: one line read
ReadLine ==
    /\ pw.pc = "loop"
    /\ pw.pos < Len(pw.lines)
    /\ pw' = read_line(pw, pw.lines[pw.pos + 1])
    /\ PwUnchanged

\* the for loop's else without its feed of '</root>'
EndOfInput_without_root_end ==
    /\ pw.pc = "loop"
    /\ pw.pos = Len(pw.lines)
    /\ pw' = [pw EXCEPT !.pc = "parse_all", !.after = "done"]
    /\ PwUnchanged

\* the for loop's else: '</root>' fed, the last parse_all begins
EndOfInput ==
    /\ pw.pc = "loop"
    /\ pw.pos = Len(pw.lines)
    /\ pw' = [pp_feed(pw, <<"</root>">>) EXCEPT !.pc = "parse_all", !.after = "done"]
    /\ PwUnchanged

\* parse_all runs to its next yield or to its end
ParseAllNext ==
    /\ pw.pc = "parse_all"
    /\ pw' = parse_all_next(pw)
    /\ PwUnchanged

\* the consumer asks for the next value: parse_all resumes after its yield
ParseAllResume ==
    /\ pw.pc = "yielded"
    /\ pw' = parse_all_resume(pw)
    /\ PwUnchanged

NextParse == Open \/ ReadLine \/ EndOfInput \/ ParseAllNext \/ ParseAllResume

SpecParse == InitParse /\ [][NextParse]_vars

\* The run of a consumer that iterates to exhaustion: it keeps calling next()
\* until the generator is finished, so a step that can be taken is taken.
SpecParseConsumed == InitParse /\ [][NextParse]_vars /\ WF_vars(NextParse)

-----------------------------------------------------------------------------
(* Properties of ChunkWriter. *)

\* the data rows of the sink: the file's lines after the header
DataLines == Tail(cw.file.lines)

\* the schema declares only the types the writer supports
Supported == \A c \in 1..Len(cw.schema) : cw.schema[c][2] \in {"str", "int"}

\* the line a row is expected to commit as, cell by cell: a 'str' cell
\* verbatim, an 'int' cell as its literal when it is one and empty otherwise
ExpectedLine(schema, row) ==
    [c \in 1..Len(schema) |->
        IF schema[c][2] = "int"
        THEN (IF row[c] \in {"12", "7"} THEN row[c] ELSE "")
        ELSE row[c]]

\* every cell inserted so far is an integer literal or a non-number
PlainCells ==
    \A k \in 1..Len(inserted) : \A c \in 1..Len(inserted[k]) : inserted[k][c] \in {"12", "abc"}

\* C1: after insert / insertmany calls followed by one final commit, the sink
\* holds as many data rows as rows were inserted (none dropped, none doubled).
C1_RowCountConserved ==
    (op = "commit" /\ commits = 1 /\ ~cw.file.closed /\ Supported /\ PlainCells)
        => Len(DataLines) = Len(inserted)

\* C2: on an open writer, the sink's data rows followed by the buffer are
\* exactly the rows inserted so far, in insertion order.
C2_SinkThenBufferIsInserted ==
    ~cw.file.closed =>
        /\ Len(DataLines) <= Len(inserted)
        /\ DataLines = [k \in 1..Len(DataLines) |-> ExpectedLine(cw.schema, inserted[k])]
        /\ cw.items = SubSeq(inserted, Len(DataLines) + 1, Len(inserted))

\* C2's case: two committed batches of different rows and a row still buffered
C2_Witness ==
    /\ ~cw.file.closed
    /\ Len(DataLines) = 2
    /\ DataLines[1] # DataLines[2]
    /\ Len(cw.items) = 1
    /\ cw.i >= 2

\* C3: insert returns true exactly on the calls during which buffered rows
\* were committed to the sink, and false on all others.
C3_InsertReportsCommit ==
    [][ (op' = "insert" /\ ~cw.file.closed /\ Supported /\ PlainCells')
            => /\ ret' \in {"True", "False"}
               /\ (ret' = "True") <=> (cw'.file.lines # cw.file.lines) ]_vars

\* C4: commit on an empty buffer changes nothing: sink, buffer and the
\* counters i and j stay as they were.
C4_CommitOnEmptyIsNoOp ==
    [][ (op' = "commit" /\ Len(cw.items) = 0) => cw' = cw ]_vars

\* C5: every call on a writer that was deleted raises.
C5_ClosedWriterFaults ==
    [][ cw.file.closed => fault' # "none" ]_vars

\* insert called once per row in order; the caller's loop ends at the first
\* call that raises. any is whether a call so far returned true.
RECURSIVE insert_each(_, _, _)
insert_each(w, rows, any) ==
    IF Len(rows) = 0
    THEN [w |-> w, any |-> any, fault |-> "none"]
    ELSE LET r == insert(w, Head(rows))
         IN  IF r.fault # "none"
             THEN [w |-> r.w, any |-> any, fault |-> r.fault]
             ELSE insert_each(r.w, Tail(rows), any \/ r.ret = "True")

\* the rows the step's call appended
NewRows == SubSeq(inserted', Len(inserted) + 1, Len(inserted'))

\* C6 as stated: insertmany(rows) leaves the sink, the buffer and the number
\* of commits as insert called once per row does, and reports true exactly
\* when one of those inserts would (compared where neither raises).
C6_InsertManyAsInserts ==
    [][ LET e == insert_each(cw, NewRows, FALSE)
        IN  (op' = "insertmany" /\ ~cw.file.closed /\ fault' = "none" /\ e.fault = "none")
                => /\ cw'.file = e.w.file
                   /\ cw'.items = e.w.items
                   /\ cw'.i = e.w.i
                   /\ (ret' = "True") <=> e.any ]_vars

\* C6 amended: when the buffer is below the threshold and the appended rows
\* take it to the threshold at most, insertmany(rows) and insert per row
\* agree on the whole writer, on the fault raised and on the value reported.
C6_InsertManyAsInsertsUpToThreshold ==
    [][ LET e == insert_each(cw, NewRows, FALSE)
        IN  (/\ op' = "insertmany"
             /\ ~cw.file.closed
             /\ Len(cw.items) < cw.chunk_size
             /\ Len(cw.items) + Len(NewRows) <= cw.chunk_size)
                => /\ cw' = e.w
                   /\ fault' = e.fault
                   /\ e.fault = "none" => ((ret' = "True") <=> e.any)
                   /\ e.fault = "none" => ret' \in {"True", "False"} ]_vars

\* C6's case: insertmany of two rows reached the threshold and committed them
C6_Witness ==
    /\ op = "insertmany"
    /\ ret = "True"
    /\ ~cw.file.closed
    /\ cw.chunk_size = 2
    /\ cw.i = 1
    /\ Len(inserted) = 2
    /\ Len(DataLines) = 2

-----------------------------------------------------------------------------
(* Properties of DummyWriter. *)

\* only insert has been called on the DummyWriter so far
OnlyInserts == dcalls.insertmany = 0 /\ dcalls.commit = 0 /\ dcalls.delete = 0

\* C7 as stated: no DummyWriter call raises, and after N calls of insert the
\* count i is N, also for N >= chunk_size.
C7_DummyCountIsN ==
    /\ fault = "none"
    /\ OnlyInserts => dw.i = dcalls.insert

\* C7 amended: no DummyWriter call raises, and after N calls of insert the
\* count i is N modulo chunk_size: it restarts at 0 when it reaches chunk_size.
C7_DummyCountIsNModChunk ==
    /\ fault = "none"
    /\ OnlyInserts => dw.i = dcalls.insert % dw.chunk_size

\* C7's case: more inserts than chunk_size, the count has restarted and grown again
C7_Witness ==
    /\ OnlyInserts
    /\ dw.chunk_size = 2
    /\ dcalls.insert = 3
    /\ dw.i = 1

-----------------------------------------------------------------------------
(* Properties of parse_wrapper. *)

Range(f) == {f[k] : k \in DOMAIN f}

\* node n is still in the tree: its parent chain reaches the root (node 1)
RECURSIVE Attached(_, _)
Attached(t, n) == n = 1 \/ (t.parent[n] # 0 /\ Attached(t, t.parent[n]))

\* the completed designated elements not yet cleared that the tree, the event
\* queue or the running parse_all still hold
Unreleased ==
    IF pw.pc = "start" THEN {}
    ELSE { n \in Range(pw.pp.ends) :
             /\ n \notin pw.pp.cleared
             /\ \/ Attached(pw.pp, n)
                \/ n \in Range(pw.pp.events)
                \/ (pw.pc = "yielded" /\ n = pw.pat) }

\* C8: at every point of a run at most one completed designated element is
\* held un-released, whatever the input.
C8_AtMostOneUnreleased == Cardinality(Unreleased) <= 1

\* how many pieces of the fed lines are the designated end tag
RECURSIVE CountEnds(_)
CountEnds(pieces) ==
    IF Len(pieces) = 0 THEN 0
    ELSE (IF Head(pieces) = "</rec>" THEN 1 ELSE 0) + CountEnds(Tail(pieces))

\* C9: the yielded values are, one for one and in order, the designated
\* elements whose end tag was fed: always a prefix of them without repeats,
\* all of them once the input is consumed, and none yielded after its clear.
C9_YieldedAreClosedInOrder ==
    pw.pc # "start" =>
        /\ Len(pw.pp.ends) = CountEnds(Flatten(pw.fed))
        /\ Len(pw.yielded) <= Len(pw.pp.ends)
        /\ pw.yielded = SubSeq(pw.pp.ends, 1, Len(pw.yielded))
        /\ \A j, k \in 1..Len(pw.yielded) : j # k => pw.yielded[j] # pw.yielded[k]
        /\ pw.pc = "done" => pw.yielded = pw.pp.ends
        /\ ~pw.stale

\* C9's case: a consumed input of two segments, an element yielded from each
C9_Witness ==
    /\ pw.pc = "done"
    /\ Len(pw.yielded) = 2
    /\ \E k \in 2..Len(pw.lines) :
          /\ pw.lines[k] = <<"<?xml">>
          /\ \E j \in 1..(k - 1) : pw.lines[j] = <<"<rec>", "</rec>">>
    /\ pw.pp.cleared = Range(pw.yielded)

\* the lines of the input that are ordinary content, by their first piece
Ordinary(line) == line[1] \notin {"<?xml", "<!DOCTYPE", "<!ENTITY", "]>"}

\* what was fed from the input: everything but the synthetic root tags
FedFromInput == SelectSeq(pw.fed, LAMBDA l : l \notin {<<"<root>">>, <<"</root>">>})

\* C10: no line starting with <!DOCTYPE, <!ENTITY or ]> is fed, and the
\* ordinary lines read so far are fed unmodified, once each, in input order.
C10_OrdinaryLinesFedOnce ==
    pw.pc # "start" =>
        /\ \A k \in 1..Len(pw.fed) : pw.fed[k][1] \notin {"<!DOCTYPE", "<!ENTITY", "]>"}
        /\ FedFromInput = SelectSeq(SubSeq(pw.lines, 1, pw.pos), Ordinary)

\* C10's case: a consumed input with a dropped ]> line and a fed line that
\* only contains ]>
C10_Witness ==
    /\ pw.pc = "done"
    /\ \E j, k \in 1..Len(pw.lines) :
          /\ pw.lines[j] = <<"]>">>
          /\ pw.lines[k] = <<"text", "]>">>
    /\ \E k \in 1..Len(pw.fed) : pw.fed[k] = <<"text", "]>">>

\* the generator has finished: StopIteration was raised to the consumer
Finished == pw.pc = "done"

\* how many of the fed fragments are the fragment f
CountFed(f) == Cardinality({k \in 1..Len(pw.fed) : pw.fed[k] = f})

\* C11: a consumer that iterates to exhaustion sees the generator finish, and
\* what was fed is then one <root>, the input's ordinary lines, one </root>,
\* with the final drain done after it; before the end no </root> is fed.
C11_TerminatesWithRootTags ==
    /\ <>Finished
    /\ [](pw.pc # "start" => (pw.fed[1] = <<"<root>">> /\ CountFed(<<"<root>">>) = 1))
    /\ [](pw.pos < Len(pw.lines) => CountFed(<<"</root>">>) = 0)
    /\ [](CountFed(<<"</root>">>) >= 1 => pw.fed[Len(pw.fed)] = <<"</root>">>)
    /\ [](Finished =>
            /\ pw.pos = Len(pw.lines)
            /\ CountFed(<<"</root>">>) = 1
            /\ pw.fed[Len(pw.fed)] = <<"</root>">>
            /\ Len(pw.fed) = Len(FedFromInput) + 2
            /\ pw.pp.events = <<>>
            /\ pw.yielded = pw.pp.ends)

\* C11's case: a finished run over an input with ordinary lines, whose last
\* element was yielded by the final drain
C11_Witness ==
    /\ Finished
    /\ Len(pw.lines) >= 2
    /\ Len(pw.fed) >= 4
    /\ pw.lines[Len(pw.lines)] = <<"<rec>", "</rec>">>
    /\ Len(pw.yielded) >= 1

\* C12: once the line after an XML declaration line can be read, every
\* designated element completed by the lines fed so far has been yielded
\* and cleared, so no value of an earlier segment is yielded later.
C12_DeclarationDrainsFirst ==
    (pw.pc = "loop" /\ pw.pos >= 1 /\ pw.lines[pw.pos][1] = "<?xml")
        => /\ pw.pp.events = <<>>
           /\ pw.yielded = pw.pp.ends
           /\ Range(pw.pp.ends) \subseteq pw.pp.cleared

\* C12's case: a declaration line read after two completed elements
C12_Witness ==
    /\ pw.pc = "loop"
    /\ pw.pos >= 2
    /\ pw.lines[pw.pos] = <<"<?xml">>
    /\ pw.pos < Len(pw.lines)
    /\ Len(pw.yielded) = 2

\* the step is parse_all's clear(pat) on an element that has a parent
ClearStep == pw.pc = "yielded" /\ pw'.pc = "parse_all" /\ pw.pp.parent[pw.pat] # 0

\* the children of pat's parent before the step, and where pat is among them
SiblingsOfPat == pw.pp.children[pw.pp.parent[pw.pat]]
PatAt == CHOOSE k \in 1..Len(SiblingsOfPat) : SiblingsOfPat[k] = pw.pat

\* C16 as stated: clear(elem) leaves elem detached from its parent, the
\* siblings before it removed and the siblings after it unchanged, in order.
C16_ClearDetachesElement ==
    [][ ClearStep =>
          /\ pw'.pp.parent[pw.pat] = 0
          /\ pw'.pp.children[pw.pp.parent[pw.pat]]
                = SubSeq(SiblingsOfPat, PatAt + 1, Len(SiblingsOfPat)) ]_vars

\* C16 amended: clear(elem) empties elem and leaves it in the tree as the
\* first child of its parent; the siblings before it are removed from the
\* parent and the siblings after it stay unchanged, in order.
C16_ClearKeepsElementFirst ==
    [][ ClearStep =>
          /\ pw'.pp.parent[pw.pat] = pw.pp.parent[pw.pat]
          /\ pw'.pp.children[pw.pat] = <<>>
          /\ pw'.pp.children[pw.pp.parent[pw.pat]]
                = SubSeq(SiblingsOfPat, PatAt, Len(SiblingsOfPat))
          /\ \A k \in 1..(PatAt - 1) : pw'.pp.parent[SiblingsOfPat[k]] = 0
          /\ \A k \in (PatAt + 1)..Len(SiblingsOfPat) :
                /\ pw'.pp.parent[SiblingsOfPat[k]] = pw.pp.parent[pw.pat]
                /\ pw'.pp.children[SiblingsOfPat[k]] = pw.pp.children[SiblingsOfPat[k]] ]_vars

\* C16's case: clear has run on an element that had a sibling before it (now
\* out of the tree) and has a sibling after it (still in place)
C16_Witness ==
    /\ pw.pc = "parse_all"
    /\ pw.pat # 0
    /\ pw.pat \in pw.pp.cleared
    /\ pw.pp.parent[pw.pat] = 1
    /\ Len(pw.pp.children[1]) >= 2
    /\ pw.pp.children[1][1] = pw.pat
    /\ \E n \in 2..(pw.pat - 1) : pw.pp.parent[n] = 0 /\ pw.pp.tag[n] = "x"

-----------------------------------------------------------------------------
(* Claims about the sink, the coercion, the counters and the faults of    *)
(* ChunkWriter, under Spec.                                               *)

Calls == {"insert", "insertmany", "commit"}

\* s is an initial segment of t
IsPrefix(s, t) == Len(s) <= Len(t) /\ SubSeq(t, 1, Len(s)) = s

\* C13: the sink holds the header once, as its first line, from construction
\* on; every line after it is the data line of an inserted row, and no
\* insert, insertmany or commit changes what the sink already holds (commits
\* only append).
C13_HeaderOnceAppendOnly ==
    /\ [](~cw.file.closed =>
            /\ Len(cw.file.lines) >= 1
            /\ cw.file.lines[1] = HeaderLine(cw.schema)
            /\ Len(cw.file.lines) - 1 <= Len(inserted)
            /\ \A k \in 2..Len(cw.file.lines) :
                  cw.file.lines[k] = ExpectedLine(cw.schema, inserted[k - 1]))
    /\ [][op' \in Calls => IsPrefix(cw.file.lines, cw'.file.lines)]_vars

\* C13's case: two batches were appended one after the other below the header
C13_Witness ==
    /\ ~cw.file.closed
    /\ op = "insert" /\ ret = "True"
    /\ cw.chunk_size = 1
    /\ Len(cw.file.lines) = 3
    /\ cw.file.lines[1] = <<"a", "b">>
    /\ cw.file.lines[2] # cw.file.lines[3]

\* the lines the buffer is expected to commit as
ExpectedLines(w) == [k \in 1..Len(w.items) |-> ExpectedLine(w.schema, w.items[k])]

\* C14: a commit of a non-empty buffer under a schema of 'str' and 'int'
\* columns does not fail and appends one line per buffered row, an 'int' cell
\* as its integer when it parses as one and as null otherwise, a 'str' cell
\* verbatim.
C14_CoercionNeverFailsCommit ==
    [][ (op' = "commit" /\ ~cw.file.closed /\ ~cw.output /\ Supported /\ Len(cw.items) > 0)
            => /\ fault' = "none"
               /\ cw'.file.lines = cw.file.lines \o ExpectedLines(cw) ]_vars

\* C15: over every call neither counter decreases, the batch counter i grows
\* by one exactly when a batch was appended to the sink and the row counter j
\* grows by the number of lines appended, so that neither counts a commit
\* that appended nothing (stated for calls none of whose commits raises).
C15_CountersCountAppended ==
    [][ (op' \in Calls /\ ~cw.file.closed /\ ~cw.output /\ Supported /\ PlainCells') =>
          /\ cw'.i >= cw.i /\ cw'.j >= cw.j
          /\ cw'.i - cw.i = (IF cw'.file.lines # cw.file.lines THEN 1 ELSE 0)
          /\ cw'.j - cw.j = Len(cw'.file.lines) - Len(cw.file.lines) ]_vars

\* the call the step made, made on writer w instead
SameCallOn(w) ==
    CASE op' = "insert"     -> insert(w, NewRows[1])
      [] op' = "insertmany" -> insertmany(w, NewRows)
      [] OTHER              -> commit(w)

\* C17: up to the first commit of a non-empty buffer a writer built with
\* output=True and one built with output=False are in the same state but for
\* the flag; the next call gives both the same sink, the same return value
\* and no fault the other does not have.
C17_OutputFlagIsInert ==
    [][ (op' \in Calls /\ cw.output /\ cw.j = 0 /\ ~cw.file.closed)
            => LET r == SameCallOn([cw EXCEPT !.output = FALSE])
               IN  /\ fault' = r.fault
                   /\ ret' = r.ret
                   /\ cw'.file = r.w.file ]_vars

\* C19: after an insert, insertmany or commit call returns, the buffer holds
\* fewer than chunk_size rows; a call that reports a commit leaves the buffer
\* empty; and a call appends more than chunk_size lines to the sink only when
\* it is insertmany.
C19_BufferBelowThreshold ==
    /\ []((op \in Calls /\ fault = "none") => Len(cw.items) < cw.chunk_size)
    /\ []((op \in Calls /\ ret = "True") => cw.items = <<>>)
    /\ [][ (op' \in Calls /\ Len(cw'.file.lines) - Len(cw.file.lines) > cw.chunk_size)
              => op' = "insertmany" ]_vars

\* C19's case: insertmany pushed three rows past a threshold of two and the
\* commit it triggered wrote all three as one batch
C19_Witness ==
    /\ op = "insertmany" /\ ret = "True"
    /\ cw.chunk_size = 2
    /\ cw.i = 1
    /\ Len(DataLines) = 3
    /\ cw.items = <<>>

\* C20: a call whose commit raises leaves the sink as it was and the buffer
\* holding the pending rows followed by the rows the call appended, in order.
C20_FaultKeepsSinkAndBuffer ==
    [][ (op' \in Calls /\ fault' # "none")
            => /\ cw'.file = cw.file
               /\ cw'.items = cw.items \o NewRows ]_vars

\* C20's case: the second insert reached the threshold, the commit raised on
\* the unsupported column type, and both rows are still buffered
C20_Witness ==
    /\ op = "insert" /\ fault = "Exception"
    /\ cw.chunk_size = 2
    /\ Len(cw.items) = 2
    /\ cw.items = inserted
    /\ cw.items[1] # cw.items[2]
    /\ cw.file.lines = <<HeaderLine(cw.schema)>>

-----------------------------------------------------------------------------
(* Claim about the two writers side by side, under SpecPair.              *)

\* the call the step made, made on DummyWriter d
SameDummyCallOn(d) ==
    CASE op' = "insert"     -> dummy_insert(d, NewRows[1])
      [] op' = "insertmany" -> dummy_insertmany(d, NewRows)
      [] OTHER              -> dummy_commit(d)

\* C18: on every call the ChunkWriter returns what the DummyWriter returns,
\* and after the call the DummyWriter's count i is the length of the
\* ChunkWriter's buffer (stated for schemas of 'str' and 'int' columns and
\* cells that are integer literals or not numbers).
C18_DummyMirrorsChunkWriter ==
    [][ (op' \in Calls /\ Supported /\ PlainCells')
            => /\ ret' = SameDummyCallOn(dw).ret
               /\ dw'.i = Len(cw'.items) ]_vars

====
